---- MODULE Spec2Model ----
(***************************************************************************)
(* Dynamic programming on a tabular MDP: the functions of                  *)
(* gym-gridworld/policy_iteration.py.                                      *)
(*                                                                         *)
(* Reals are modelled as exact rationals <<numerator, denominator>> in     *)
(* lowest terms with a positive denominator.  numpy arrays of policies are *)
(* objects of a heap (policy_arrays) addressed by reference, because       *)
(* greedy_policy_from_value_function assigns to policy[state]; value       *)
(* arrays are only ever read or freshly allocated by the code and are      *)
(* modelled by their contents.                                             *)
(***************************************************************************)
EXTENDS Integers, FiniteSets, Sequences, TLC

\* ------------------------------------------------------------------ bounds
NumStates == 2
NumActions == 2
MaxStepsInput == 2

States == 0 .. (NumStates - 1)
Actions == 0 .. (NumActions - 1)

\* The while True loops have no bound of their own when max_steps is never
\* met; the model stops exploring a run after MaxSweeps iterations.
MaxSweeps == MaxStepsInput + 1

\* ------------------------------------------------------------ rationals
RECURSIVE GCD(_, _)
GCD(a, b) == IF b = 0 THEN a ELSE GCD(b, a % b)

Abs(n) == IF n < 0 THEN -n ELSE n

Rat(n, d) ==
  LET s == IF d < 0 THEN -1 ELSE 1
      g == GCD(Abs(n), Abs(d))
  IN  <<(s * n) \div g, (s * d) \div g>>

IntRat(n) == <<n, 1>>
Zero == <<0, 1>>
One == <<1, 1>>

RAdd(x, y) == Rat(x[1] * y[2] + y[1] * x[2], x[2] * y[2])
RSub(x, y) == Rat(x[1] * y[2] - y[1] * x[2], x[2] * y[2])
RMul(x, y) == Rat(x[1] * y[1], x[2] * y[2])
RLt(x, y) == x[1] * y[2] < y[1] * x[2]
RLe(x, y) == x[1] * y[2] <= y[1] * x[2]

\* --------------------------------------------------------------- inputs
\* Tables over the states holding -1 on the first k states and 0 on the rest
\* (a step cost of -1 everywhere, or 0 on the last, terminal, states).
Staircases ==
  { [state \in States |-> IF state < k THEN -1 ELSE 0] : k \in 0 .. NumStates }
Discounts == {<<1, 2>>, One}
Thresholds == {<<1, 100000>>, One}

\* Optional argument value_function=None.
None == <<>>
Some(v) == <<v>>

Zeros == [state \in States |-> Zero]

\* Deterministic, total transition tables on the declared state space.
Topologies ==
  { [state \in States |-> [action \in Actions |->
        (k[1] * state + k[2] * action + k[3]) % NumStates]] :
      k \in {0, 1} \X {0, 1} \X {0, 1} }

\* A row that is uniform over a non-empty set of actions.
UniformOver(U) ==
  [action \in Actions |-> IF action \in U THEN Rat(1, Cardinality(U)) ELSE Zero]

InitialPolicies ==
  { [state \in States |-> UniformOver(U)] : U \in (SUBSET Actions) \ {{}} }

InitialValues ==
  {None} \cup { Some([state \in States |-> IntRat(f[state])]) :
                  f \in Staircases \ {[state \in States |-> 0]} }

VARIABLES
  next_state,        \* env.look_step_ahead(state, action)[0]
  reward,            \* env.look_step_ahead(state, action)[1]
  reward_matrix,     \* env.reward_matrix[state]
  discount_factor,   \* keyword argument discount_factor
  policy_arrays,     \* heap of policy arrays: reference -> N x A matrix
  policy,            \* the caller's argument policy (a reference)
  value_function_arg,\* the caller's argument value_function (None or array)
  func,              \* the function the caller invoked
  pc,                \* "idle", "loop" or "done"
  threshold,
  max_steps,
  value_function,    \* local value_function of the controllers
  policy_value,      \* local policy_value / returned value array
  delta,
  step_number,
  greedy_policy,     \* local greedy_policy (reference) / returned policy
  warned,            \* warnings.warn was called
  \* ---- observations of the run (not program state)
  sweeps,            \* loop iterations (evaluation sweeps) performed
  improvements,      \* calls of greedy_policy_from_value_function
  policy_on_entry,   \* contents of the caller's policy at the call
  swept_policy,      \* contents of the policy the last sweep evaluated
  swept_value,       \* value array the last sweep read
  improved_from,     \* contents of the policy on entry of the last improvement
  improved_value,    \* value array given to the last improvement
  improved_to,       \* contents of the result of the last improvement
  prev_improved_to   \* contents of the result of the improvement before

vars == <<next_state, reward, reward_matrix, discount_factor, policy_arrays,
          policy, value_function_arg, func, pc, threshold, max_steps,
          value_function, policy_value, delta, step_number, greedy_policy,
          warned, sweeps, improvements, policy_on_entry, swept_policy,
          swept_value, improved_from, improved_value, improved_to,
          prev_improved_to>>

env_vars == <<next_state, reward, reward_matrix, discount_factor>>

\* ------------------------------------------- single_step_policy_evaluation
\* v_new[state] after the first n actions of the inner loop.
RECURSIVE EvaluationBackup(_, _, _, _)
EvaluationBackup(pol, v, state, n) ==
  IF n = 0
    THEN IntRat(reward_matrix[state])
    ELSE RAdd(EvaluationBackup(pol, v, state, n - 1),
              RMul(pol[state][n - 1],
                   RMul(discount_factor, v[next_state[state][n - 1]])))

\* v = np.zeros(...) if value_function is None else value_function
ValueOrZeros(value_fn) == IF value_fn = None THEN Zeros ELSE value_fn[1]

\* A sweep that writes into the array it reads (Gauss-Seidel).
RECURSIVE InPlaceSweep(_, _, _)
InPlaceSweep(pol, v, n) ==
  IF n = 0
    THEN v
    ELSE LET w == InPlaceSweep(pol, v, n - 1)
         IN  [w EXCEPT ![n - 1] = EvaluationBackup(pol, w, n - 1, NumActions)]

SingleStepPolicyEvaluationInPlace(pol, value_fn) ==
  InPlaceSweep(pol, ValueOrZeros(value_fn), NumStates)

SingleStepPolicyEvaluation(pol, value_fn) ==
  LET v == ValueOrZeros(value_fn)
  IN  [state \in States |-> EvaluationBackup(pol, v, state, NumActions)]

\* ---------------------------------------- greedy_policy_from_value_function
ActionValues(row, state, v) ==
  [action \in Actions |->
     RMul(row[action],
          RAdd(IntRat(reward[state][action]),
               RMul(discount_factor, v[next_state[state][action]])))]

MaxValueActions(action_values) ==
  {a \in Actions : \A b \in Actions : RLe(action_values[b], action_values[a])}

\* Probability 1 on the first maximal action only (np.argmax).
GreedyRowFirstMaximum(row, state, v) ==
  LET max_value_actions == MaxValueActions(ActionValues(row, state, v))
      first == CHOOSE a \in max_value_actions :
                 \A b \in max_value_actions : a <= b
  IN  [action \in Actions |-> IF action = first THEN One ELSE Zero]

\* Probability 1 on every maximal action (no division by their number).
GreedyRowUnnormalised(row, state, v) ==
  LET max_value_actions == MaxValueActions(ActionValues(row, state, v))
  IN  [action \in Actions |-> IF action \in max_value_actions THEN One ELSE Zero]

GreedyRow(row, state, v) ==
  LET max_value_actions == MaxValueActions(ActionValues(row, state, v))
  IN  [action \in Actions |->
         IF action \in max_value_actions
           THEN Rat(1, Cardinality(max_value_actions))
           ELSE Zero]

\* The loop assigns policy[state] for state = 0 .. n-1 of the array itself.
RECURSIVE GreedyRows(_, _, _)
GreedyRows(matrix, v, n) ==
  IF n = 0
    THEN matrix
    ELSE LET done == GreedyRows(matrix, v, n - 1)
         IN  [done EXCEPT ![n - 1] = GreedyRow(done[n - 1], n - 1, v)]

\* The improvement written into a newly allocated array, the argument kept.
GreedyPolicyIntoNewArray(arrays, pol, v) ==
  LET fresh == Cardinality(DOMAIN arrays)
  IN  [arrays |-> arrays @@ (fresh :> GreedyRows(arrays[pol], v, NumStates)),
       result |-> fresh]

\* Returns the heap after the call and the reference returned.
GreedyPolicyFromValueFunction(arrays, pol, v) ==
  [arrays |-> [arrays EXCEPT ![pol] = GreedyRows(arrays[pol], v, NumStates)],
   result |-> pol]

\* ------------------------------------------------------------ controllers
\* np.max(value_function - policy_value)
MaxDelta(v, pv) ==
  LET diffs == {RSub(v[state], pv[state]) : state \in States}
  IN  CHOOSE d \in diffs : \A e \in diffs : RLe(e, d)

\* ndarray.all()
AllOf(matrix) ==
  \A state \in States : \A action \in Actions : matrix[state][action] # Zero

Init ==
  /\ next_state \in Topologies
  /\ \E entering \in Staircases :
       reward = [state \in States |-> [action \in Actions |->
                   entering[next_state[state][action]]]]
  /\ reward_matrix \in Staircases
  /\ discount_factor \in Discounts
  /\ \E p0 \in InitialPolicies : policy_arrays = (0 :> p0)
  /\ policy = 0
  /\ value_function_arg \in InitialValues
  /\ func = "none"
  /\ pc = "idle"
  /\ threshold = Zero
  /\ max_steps = 0
  /\ value_function = Zeros
  /\ policy_value = Zeros
  /\ delta = Zero
  /\ step_number = 0
  /\ greedy_policy = 0
  /\ warned = FALSE
  /\ sweeps = 0
  /\ improvements = 0
  /\ policy_on_entry = policy_arrays[policy]
  /\ swept_policy = policy_arrays[policy]
  /\ swept_value = Zeros
  /\ improved_from = policy_arrays[policy]
  /\ improved_value = Zeros
  /\ improved_to = policy_arrays[policy]
  /\ prev_improved_to = policy_arrays[policy]


\* ---------------------------------------------------------------- calls
unchanged_locals ==
  UNCHANGED <<threshold, max_steps, value_function, delta, step_number,
              greedy_policy, warned>>

\* single_step_policy_evaluation(policy, env, discount_factor, value_function)
CallSingleStepPolicyEvaluation ==
  /\ pc = "idle"
  /\ func' = "single_step_policy_evaluation"
  /\ policy_value' =
       SingleStepPolicyEvaluation(policy_arrays[policy], value_function_arg)
  /\ pc' = "done"
  /\ sweeps' = sweeps + 1
  /\ swept_policy' = policy_arrays[policy]
  /\ swept_value' = ValueOrZeros(value_function_arg)
  /\ unchanged_locals
  /\ UNCHANGED <<env_vars, policy_arrays, policy, value_function_arg,
                 improvements, policy_on_entry, improved_from, improved_value,
                 improved_to, prev_improved_to>>

\* greedy_policy_from_value_function(policy, env, value_function, discount_factor)
\* value_function is a required array here.
CallGreedyPolicyFromValueFunction ==
  /\ pc = "idle"
  /\ value_function_arg # None
  /\ func' = "greedy_policy_from_value_function"
  /\ \E g \in {GreedyPolicyFromValueFunction(policy_arrays, policy,
                                             value_function_arg[1])} :
         /\ policy_arrays' = g.arrays
         /\ greedy_policy' = g.result
         /\ improved_to' = g.arrays[g.result]
  /\ improved_from' = policy_arrays[policy]
  /\ improved_value' = value_function_arg[1]
  /\ prev_improved_to' = improved_to
  /\ improvements' = improvements + 1
  /\ pc' = "done"
  /\ UNCHANGED <<env_vars, policy, value_function_arg, threshold, max_steps,
                 value_function, policy_value, delta, step_number, warned,
                 sweeps, policy_on_entry, swept_policy, swept_value>>

\* Entry of policy_iteration / value_iteration up to the while loop.
EnterController(name, thr, steps) ==
  /\ pc = "idle"
  /\ func' = name
  /\ threshold' = thr
  /\ max_steps' = steps
  /\ value_function' = ValueOrZeros(value_function_arg)
  /\ step_number' = 0
  /\ greedy_policy' = policy
  /\ pc' = "loop"
  /\ UNCHANGED <<env_vars, policy_arrays, policy, value_function_arg,
                 policy_value, delta, warned, sweeps, improvements,
                 policy_on_entry, swept_policy, swept_value, improved_from,
                 improved_value, improved_to, prev_improved_to>>

CallPolicyIteration ==
  \E thr \in Thresholds : \E steps \in 0 .. MaxStepsInput :
    EnterController("policy_iteration", thr, steps)

CallValueIteration ==
  \E thr \in Thresholds : \E steps \in 0 .. MaxStepsInput :
    EnterController("value_iteration", thr, steps)

\* ------------------------------------------------- policy_iteration loop
\* The if / elif after step_number += 1.
\* The budget tested before the threshold.
PolicyIterationExitBudgetFirst(d, thr, sn, steps) ==
  IF sn = steps THEN "budget"
  ELSE IF RLt(d, thr) THEN "converged"
  ELSE "continue"

PolicyIterationExit(d, thr, sn, steps) ==
  IF RLt(d, thr) THEN "converged"
  ELSE IF sn = steps THEN "budget"
  ELSE "continue"

PolicyIterationStep ==
  /\ pc = "loop"
  /\ func = "policy_iteration"
  /\ sweeps < MaxSweeps
  /\ \E pv \in {SingleStepPolicyEvaluation(policy_arrays[policy],
                                           Some(value_function))} :
     \E d \in {MaxDelta(value_function, pv)} :
     \E g \in {GreedyPolicyFromValueFunction(policy_arrays, policy, pv)} :
     \E exit \in {PolicyIterationExit(d, threshold, step_number + 1, max_steps)} :
         /\ policy_value' = pv
         /\ delta' = d
         /\ value_function' = pv
         /\ policy_arrays' = g.arrays
         /\ greedy_policy' = g.result
         /\ step_number' = step_number + 1
         /\ warned' = (exit = "budget")
         /\ pc' = IF exit = "continue" THEN "loop" ELSE "done"
         /\ improved_from' = policy_arrays[policy]
         /\ improved_value' = pv
         /\ improved_to' = g.arrays[g.result]
  /\ sweeps' = sweeps + 1
  /\ swept_policy' = policy_arrays[policy]
  /\ swept_value' = value_function
  /\ improvements' = improvements + 1
  /\ prev_improved_to' = improved_to
  /\ UNCHANGED <<env_vars, policy, value_function_arg, func, threshold,
                 max_steps, policy_on_entry>>

\* -------------------------------------------------- value_iteration loop
\* greedy_policy.all() == new_policy.all()
PoliciesJudgedEqual(arrays, old, new) == AllOf(arrays[old]) = AllOf(arrays[new])

\* The body of the while loop: what the sweep and the test of delta leave,
\* and how the iteration ends ("converged", "budget" or "continue").
ValueIterationBody(arrays, current, v, thr, sn, steps) ==
  LET pv == SingleStepPolicyEvaluation(arrays[current], Some(v))
      d == MaxDelta(v, pv)
  IN  IF RLt(d, thr)
        THEN LET g == GreedyPolicyFromValueFunction(arrays, current, pv)
             IN  IF PoliciesJudgedEqual(g.arrays, current, g.result)
                   THEN [policy_value |-> pv, delta |-> d, arrays |-> g.arrays,
                         greedy_policy |-> current, new_policy |-> <<g.result>>,
                         step_number |-> sn, exit |-> "converged"]
                   ELSE [policy_value |-> pv, delta |-> d, arrays |-> g.arrays,
                         greedy_policy |-> g.result, new_policy |-> <<g.result>>,
                         step_number |-> sn + 1,
                         exit |-> IF sn + 1 = steps THEN "budget" ELSE "continue"]
        ELSE [policy_value |-> pv, delta |-> d, arrays |-> arrays,
              greedy_policy |-> current, new_policy |-> <<>>,
              step_number |-> sn + 1,
              exit |-> IF sn + 1 = steps THEN "budget" ELSE "continue"]

ValueIterationStep ==
  /\ pc = "loop"
  /\ func = "value_iteration"
  /\ sweeps < MaxSweeps
  /\ \E b \in {ValueIterationBody(policy_arrays, greedy_policy, value_function,
                                  threshold, step_number, max_steps)} :
     \E improved \in {b.new_policy # <<>>} :
         /\ policy_value' = b.policy_value
         /\ delta' = b.delta
         /\ value_function' = b.policy_value
         /\ policy_arrays' = b.arrays
         /\ greedy_policy' = b.greedy_policy
         /\ step_number' = b.step_number
         /\ warned' = (b.exit = "budget")
         /\ pc' = IF b.exit = "continue" THEN "loop" ELSE "done"
         /\ improvements' = IF improved THEN improvements + 1 ELSE improvements
         /\ improved_from' =
              IF improved THEN policy_arrays[greedy_policy] ELSE improved_from
         /\ improved_value' = IF improved THEN b.policy_value ELSE improved_value
         /\ improved_to' =
              IF improved THEN b.arrays[b.new_policy[1]] ELSE improved_to
         /\ prev_improved_to' = IF improved THEN improved_to ELSE prev_improved_to
  /\ sweeps' = sweeps + 1
  /\ swept_policy' = policy_arrays[greedy_policy]
  /\ swept_value' = value_function
  /\ UNCHANGED <<env_vars, policy, value_function_arg, func, threshold,
                 max_steps, policy_on_entry>>

Next ==
  \/ CallSingleStepPolicyEvaluation
  \/ CallGreedyPolicyFromValueFunction
  \/ CallPolicyIteration
  \/ CallValueIteration
  \/ PolicyIterationStep
  \/ ValueIterationStep

Spec == Init /\ [][Next]_vars


\* ======================================================= properties
Controllers == {"policy_iteration", "value_iteration"}

RECURSIVE RSum(_, _)
RSum(f, S) ==
  IF S = {}
    THEN Zero
    ELSE LET x == CHOOSE y \in S : TRUE
         IN  RAdd(f[x], RSum(f, S \ {x}))

\* rewardOf(s) + sum over a of pol[s][a] * discount * v[nextState(s, a)]
ExpectedBackup(pol, v, s) ==
  RAdd(IntRat(reward_matrix[s]),
       RSum([a \in Actions |->
               RMul(RMul(pol[s][a], discount_factor), v[next_state[s][a]])],
            Actions))

\* reward(s, a) + discount * v[nextState(s, a)]
OneStepReturn(v, s, a) ==
  RAdd(IntRat(reward[s][a]), RMul(discount_factor, v[next_state[s][a]]))

Maximizers(f) == {a \in Actions : \A b \in Actions : ~RLt(f[a], f[b])}

Support(row) == {a \in Actions : row[a] # Zero}

EqualShares(row) ==
  \A a \in Support(row) : RMul(row[a], IntRat(Cardinality(Support(row)))) = One

\* The signed maximum over the states of (before - after).
IsSignedMax(d, before, after) ==
  /\ \A s \in States : RLe(RSub(before[s], after[s]), d)
  /\ \E s \in States : RSub(before[s], after[s]) = d

\* ------------------------------------------------------------------- C1
\* C1: policy_iteration and value_iteration never perform more loop
\* iterations (evaluation sweeps) than max_steps, for any max_steps.
C1_SweepsWithinMaxSteps ==
  func \in Controllers => sweeps <= max_steps

\* The budget as the code keeps it: it holds for every max_steps >= 1.
SweepsWithinPositiveMaxSteps ==
  (func \in Controllers /\ max_steps >= 1) =>
     /\ sweeps <= max_steps
     /\ (sweeps = max_steps => pc = "done")

\* ------------------------------------------------------------------- C2
\* C2: after greedy_policy_from_value_function every row places equal
\* probability on exactly the actions maximizing
\* reward(s,a) + discount * value[nextState(s,a)] and 0 on the others.
C2_GreedyMaximizesOneStepReturn ==
  improvements >= 1 =>
    \A s \in States :
      /\ Support(improved_to[s]) =
           Maximizers([a \in Actions |-> OneStepReturn(improved_value, s, a)])
      /\ EqualShares(improved_to[s])

\* ------------------------------------------------------------------- C3
ValidRow(row) ==
  /\ DOMAIN row = Actions
  /\ \A a \in Actions : RLe(Zero, row[a])
  /\ RSum(row, Actions) = One

ValidPolicy(matrix) ==
  /\ DOMAIN matrix = States
  /\ \A s \in States : ValidRow(matrix[s])

\* C3: every policy array has shape N x |Actions| with rows that have no
\* negative entry and sum to exactly 1, after any number of improvements,
\* and the value arrays keep length N.
C3_PolicyRowsValid ==
  /\ \A ref \in DOMAIN policy_arrays : ValidPolicy(policy_arrays[ref])
  /\ ValidPolicy(improved_to)
  /\ DOMAIN value_function = States
  /\ DOMAIN policy_value = States

\* Two improvements inside a controller, the second leaving a tie.
C3_Witness ==
  /\ func = "policy_iteration"
  /\ improvements >= 2
  /\ \E s \in States : Cardinality(Support(policy_arrays[policy][s])) >= 2
  /\ \E s \in States : Cardinality(Support(policy_arrays[policy][s])) = 1

\* ------------------------------------------------------------------- C4
\* C4: the contents of the policy array the caller passed in are the same
\* after the call as before it.
C4_CallerPolicyUnchanged ==
  policy_arrays[policy] = policy_on_entry

\* ------------------------------------------------------------------- C5
\* C5: a sweep returns, for every state s,
\* rewardOf(s) + sum_a policy[s][a] * discount * value[nextState(s,a)] with
\* value and policy as they were on entry, the transition model's reward not
\* added; single_step_policy_evaluation leaves the policy array unchanged.
C5_SynchronousSweep ==
  /\ sweeps >= 1 =>
       \A s \in States :
         policy_value[s] = ExpectedBackup(swept_policy, swept_value, s)
  /\ (func = "single_step_policy_evaluation" /\ pc = "done") =>
       /\ policy_arrays[policy] = policy_on_entry
       /\ swept_policy = policy_on_entry
       /\ swept_value = ValueOrZeros(value_function_arg)

\* A sweep whose result differs from an in-place sweep and from one that
\* adds the transition model's reward.
C5_Witness ==
  /\ func = "single_step_policy_evaluation"
  /\ pc = "done"
  /\ \E s \in States : \E a \in Actions :
       /\ swept_policy[s][a] # Zero
       /\ reward[s][a] # 0
       /\ next_state[s][a] < s
       /\ swept_value[next_state[s][a]] # policy_value[next_state[s][a]]
       /\ policy_value[s] # IntRat(reward_matrix[s])

\* ------------------------------------------------------------------- C6
\* C6: a controller has warned exactly when it has returned after its
\* max_steps-th iteration with that iteration's signed delta >= threshold;
\* otherwise it returns with delta < threshold and no warning; either way it
\* returns the value function of its last sweep and a policy.
C6_WarningIffBudgetExhausted ==
  /\ pc # "done" => ~warned
  /\ (pc = "done" /\ func \in Controllers) =>
       /\ IsSignedMax(delta, swept_value, policy_value)
       /\ warned <=> (sweeps = max_steps /\ ~RLt(delta, threshold))
       /\ ~warned => RLt(delta, threshold)
       /\ \A s \in States :
            policy_value[s] = ExpectedBackup(swept_policy, swept_value, s)
       /\ greedy_policy \in DOMAIN policy_arrays

\* Both ways of returning after the max_steps-th iteration are reached; this
\* one is the warning.
C6_Witness ==
  /\ pc = "done"
  /\ func = "value_iteration"
  /\ warned
  /\ sweeps = 2

\* ------------------------------------------------------------------- C7
\* policy[s][a] * (reward(s,a) + discount * value[nextState(s,a)]) with the
\* row as it was on entry of the last improvement.
EntryActionValue(s) ==
  [a \in Actions |-> RMul(improved_from[s][a], OneStepReturn(improved_value, s, a))]

\* C7: the output row gives exactly 1/|maxSet| to the actions whose
\* actionValue (from the entry row) is maximal and 0 to the others; two tied
\* maximal actions get exactly 1/2 each.
C7_TiesShareUniformly ==
  improvements >= 1 =>
    \A s \in States :
      LET maxSet == Maximizers(EntryActionValue(s))
      IN  /\ Support(improved_to[s]) = maxSet
          /\ EqualShares(improved_to[s])
          /\ Cardinality(maxSet) = 2 =>
               \A a \in maxSet : improved_to[s][a] = <<1, 2>>

\* A tie of exactly two maximal actions in a row the improvement changed.
C7_Witness ==
  /\ improvements >= 1
  /\ \E s \in States :
       /\ Cardinality(Maximizers(EntryActionValue(s))) = 2
       /\ improved_from[s] # improved_to[s]
       /\ \A a \in Maximizers(EntryActionValue(s)) : improved_to[s][a] = <<1, 2>>

\* ------------------------------------------------------------------- C8
\* C8: value_iteration terminates at an iteration with delta < threshold
\* only when the policy that iteration's sweep used and the new greedy
\* policy are judged equal by all(); judged different, it continues.
C8_StopsOnlyWhenJudgedEqual ==
  (func = "value_iteration" /\ pc = "done" /\ ~warned) =>
     AllOf(swept_policy) = AllOf(improved_to)

\* ------------------------------------------------------------------- C9
\* C9: every policy_iteration step is one sweep then one improvement computed
\* from that sweep's value function; step 1 evaluates the caller's policy and
\* step k+1 evaluates the greedy policy produced by step k.
C9_ImprovedPolicyFlowsOn ==
  (func = "policy_iteration" /\ sweeps >= 1) =>
     /\ improvements = sweeps
     /\ step_number = sweeps
     /\ improved_value = policy_value
     /\ improved_to = policy_arrays[greedy_policy]
     /\ sweeps = 1 => swept_policy = policy_on_entry
     /\ sweeps >= 2 => swept_policy = prev_improved_to

\* A second step that evaluated a policy other than the caller's initial one.
C9_Witness ==
  /\ func = "policy_iteration"
  /\ sweeps >= 2
  /\ swept_policy # policy_on_entry
  /\ swept_policy = prev_improved_to

\* ------------------------------------------------------------------ C10
RECURSIVE KFoldEvaluation(_, _, _)
KFoldEvaluation(pol, v, k) ==
  IF k = 0
    THEN v
    ELSE LET w == KFoldEvaluation(pol, v, k - 1)
         IN  [s \in States |-> ExpectedBackup(pol, w, s)]

\* C10: every sweep of value_iteration evaluates the caller's initial policy;
\* the policy changes at most once, in the last iteration; the run ends at the
\* first iteration with delta < threshold; the value is the k-fold evaluation
\* of the initial policy; a run ended by max_steps returns the initial policy.
C10_ValueIterationKeepsInitialPolicy ==
  func = "value_iteration" =>
     /\ sweeps >= 1 => swept_policy = policy_on_entry
     /\ sweeps >= 1 =>
          policy_value = KFoldEvaluation(policy_on_entry,
                                         ValueOrZeros(value_function_arg), sweeps)
     /\ improvements <= 1
     /\ improvements = 1 => (pc = "done" /\ ~warned)
     /\ (pc = "loop" /\ sweeps >= 1) => ~RLt(delta, threshold)
     /\ (pc = "loop") => policy_arrays[greedy_policy] = policy_on_entry
     /\ (pc = "done" /\ ~warned) => (RLt(delta, threshold) /\ improvements = 1)
     /\ (pc = "done" /\ warned) =>
          /\ improvements = 0
          /\ policy_arrays[greedy_policy] = policy_on_entry

\* A run ended by max_steps whose returned (initial) policy is not greedy for
\* the returned value function.
C10_Witness ==
  /\ func = "value_iteration"
  /\ pc = "done"
  /\ warned
  /\ sweeps >= 2
  /\ \E s \in States :
       Support(policy_arrays[greedy_policy][s]) #
         Maximizers([a \in Actions |->
                       RMul(policy_arrays[greedy_policy][s][a],
                            OneStepReturn(policy_value, s, a))])

====
